---- MODULE Spec2Model ----
(***************************************************************************)
(* blender-dataset-gen: the quality filter (postprocess.py) and the render *)
(* orchestrator (main.py with src/model_handler.py, src/scene_setup.py and *)
(* src/output.py) as state machines.                                       *)
(*                                                                         *)
(* A path below the output folder is a triple <<d1, d2, file>>; a file     *)
(* name is a pair <<stem, extension>> whose stem <<model, n>> stands for   *)
(* "<model>_v<n>".  Brightness values are exact rationals                  *)
(* <<numerator, denominator>> with a positive denominator.  Lengths are    *)
(* in units of 0.1 mm.                                                     *)
(***************************************************************************)
EXTENDS Integers, Sequences, FiniteSets, TLC

VARIABLES
    tree,           \* the files below the output folder: path -> [img, locked]
    fpc,            \* postprocess.py: position of the filter script
    max_threshold,  \* argument of process_top_view_renders_with_sync
    min_threshold,  \* argument of process_top_view_renders_with_sync, or None
    debug_mode,     \* argument of process_top_view_renders_with_sync
    pass,           \* number of calls of process_top_view_renders_with_sync begun
    walkTodo,       \* directories os.walk has still to yield in this call
    root,           \* the directory os.walk yielded last, or None
    files,          \* the files of root the inner loop has still to visit
    deleted_count,  \* local of process_top_view_renders_with_sync
    kept_count,     \* local of process_top_view_renders_with_sync
    out,            \* the lines printed so far
    removed,        \* the paths os.remove was applied to with success, per call
    raised,         \* an exception reached the except clause in this call
    calls,          \* per call: the tree and debug_mode as they were on entry
    result,         \* the pair each finished call returned
    refs,           \* what compute_thresholds_from_references was called with
    callsLeft,      \* the calls the caller has still to make
    models,         \* main.py: what find_models returns (in any order)
    faulty,         \* whether bpy.ops.render.render can raise in this environment
    mpc,            \* main.py: position in main and render_model
    todo,           \* the models the loop of main has still to visit
    cur,            \* model_info of the running render_model call
    variation,      \* loop variable of render_model
    successful,     \* local of main
    failed,         \* local of main
    history,        \* the render_model calls so far, each with how it ended
    scene,          \* bpy.data.objects
    model,          \* what load_model returned
    rng,            \* the state of the module random: the seed and the draws since
    salt,           \* the salt of str hashes in this process
    run,            \* the number of this run of main.py
    draws,          \* where in the random stream each variation drew its parameters
    views,          \* the cameras the render loop has still to visit
    loads,          \* the load_model calls so far: what was imported, what came back
    renders,        \* the render invocations so far
    unstable,       \* whether the rigid body operators can raise in this environment
    pose,           \* the last call of randomize_model_pose: what it did and returned
    rendered,       \* the number of calls of bpy.ops.render.render that returned
    made,           \* scene_setup.py: the last value computed from random draws
    config,         \* config.py: the camera tables it binds, by name
    dirs            \* the directories OUTPUT_PATH/<view>/<category> made so far

filterVars == <<tree, fpc, max_threshold, min_threshold, debug_mode, pass,
                walkTodo, root, files, deleted_count, kept_count, out,
                removed, raised, calls, result, refs, callsLeft>>

mainVars == <<models, faulty, mpc, todo, cur, variation, successful, failed,
              history, scene, model, rng, salt, run, draws, views, loads, renders>>

poseVars == <<unstable, pose, rendered>>

bootVars == <<config, dirs>>

vars == <<filterVars, mainVars, poseVars, made, bootVars>>

\* Python's None, where a tuple is expected
None == <<>>

\* the calls of process_top_view_renders_with_sync a caller makes in a row:
\* a first and a second one
Passes == {1, 2}

----------------------------------------------------------------------------
(* Bounds of the model *)

\* the most files the output tree holds when the filter starts
MaxFiles == 3
\* the most pixels of a reference image
MaxRefPixels == 2
\* the most models below the input folder
MaxModels == 2
\* the variations rendered per model (config.py ships 1)
VARIATIONS_PER_MODEL == 3

\* the random draws of scene_setup.py range over -MaxSteps..MaxSteps steps
MaxSteps == 2

----------------------------------------------------------------------------
(* Exact arithmetic on brightness values *)

RatLess(a, b) == a[1] * b[2] < b[1] * a[2]
RatEq(a, b) == a[1] * b[2] = b[1] * a[2]
RatAdd(a, b) == <<a[1] * b[2] + b[1] * a[2], a[2] * b[2]>>
RatSub(a, b) == <<a[1] * b[2] - b[1] * a[2], a[2] * b[2]>>

RECURSIVE SumSeq(_)
SumSeq(s) == IF s = <<>> THEN 0 ELSE Head(s) + SumSeq(Tail(s))

\* sum(pixels) / len(pixels) over the grayscale pixels of an image
MeanBrightness(pixels) == <<SumSeq(pixels), Len(pixels)>>

----------------------------------------------------------------------------
(* Names: str.lower() and str.endswith(".png") *)

Lower(s) ==
    CASE s = "Top" -> "top"
      [] s = "TOP" -> "top"
      [] s = ".PNG" -> ".png"
      [] s = ".Png" -> ".png"
      [] OTHER -> s

\* file.lower().endswith(".png"), a file name being <<stem, extension>>
IsPng(file) == Lower(file[2]) = ".png"

\* os.path.basename(root).lower() == "top"
IsTopDir(dir) == Lower(dir[2]) = "top"

----------------------------------------------------------------------------
(* The output trees the filter is run on *)

\* a file Image.open cannot read: no pixels
Corrupt == <<>>

\* images by their grayscale pixels: means 180, 185, 245 and 246
TreeImages == {<<175, 185>>, <<180, 190>>, <<240, 250>>, <<246, 246>>}

Categories == {"chair", "lamp"}

\* the view directories of a category; one category spells the reference
\* view with a capital
ViewsOf(c) == IF c = "chair" THEN {"top", "front_left", "back_right"}
                             ELSE {"Top", "front_left"}

\* the file names of a category: <model>_v<variation>.png
FilesOf(c) == IF c = "chair" THEN {<<<<"m", 1>>, ".png">>, <<<<"m", 2>>, ".PNG">>}
                             ELSE {<<<<"m", 1>>, ".png">>}

CategoryMajorPaths ==
    UNION {{<<c, v, f>> : v \in ViewsOf(c), f \in FilesOf(c)} : c \in Categories}

IsTopPath(p) == IsTopDir(<<p[1], p[2]>>)

\* the pixels of the views other than the reference view are never read
OtherViewImage == <<246, 246>>

\* a tree: the files S, the images im of its reference-view files, and at
\* most one faulty file (one that cannot be read or cannot be removed)
TreeOf(S, im, fault) ==
    [p \in S |->
        [img    |-> IF fault = <<"unreadable", p>> THEN Corrupt
                    ELSE IF IsTopPath(p) THEN im[p] ELSE OtherViewImage,
         locked |-> fault = <<"locked", p>>]]

TreesOver(paths, n) ==
    UNION {UNION {{TreeOf(S, im, fault) :
                      fault \in {<<"none", <<>>>>}
                                  \cup {<<"locked", p>> : p \in S}
                                  \cup {<<"unreadable", p>> : p \in {q \in S : IsTopPath(q)}}} :
                    im \in [{q \in S : IsTopPath(q)} -> TreeImages]} :
             S \in {S \in SUBSET paths : Cardinality(S) <= n}}

Trees == TreesOver(CategoryMajorPaths, MaxFiles)

Remove(t, S) == [p \in (DOMAIN t) \ S |-> t[p]]

----------------------------------------------------------------------------
(* postprocess.py *)

\* the reference images the script is run with: every image of at most
\* MaxRefPixels pixels over these grey levels, or a file that cannot be read
RefLevels == {170, 180, 250}
RefImages == UNION {[1..n -> RefLevels] : n \in 1..MaxRefPixels} \cup {Corrupt}
\* MARGIN as configured (0.05), the default of the parameter (30), and 5.0
Margins == {<<5, 100>>, <<30, 1>>, <<5, 1>>}

\* mutant: the margin is added to the upper threshold too
compute_thresholds_margin_added(empty_ref, object_ref, margin) ==
    <<RatAdd(MeanBrightness(empty_ref), margin),
      RatAdd(MeanBrightness(object_ref), margin)>>

compute_thresholds_from_references(empty_ref, object_ref, margin) ==
    LET max_avg == MeanBrightness(empty_ref)
        min_avg == MeanBrightness(object_ref)
    IN  <<RatSub(max_avg, margin), RatAdd(min_avg, margin)>>

\* mutant: avg >= max_threshold
too_bright_inclusive(avg, maxT) == RatLess(maxT, avg) \/ RatEq(maxT, avg)

\* avg > max_threshold
too_bright(avg, maxT) == RatLess(maxT, avg)
\* min_threshold is not None and avg < min_threshold
too_dark(avg, minT) == minT # None /\ RatLess(avg, minT)

Reason(avg, maxT, minT) ==
    IF too_bright(avg, maxT) THEN "too bright"
    ELSE IF too_dark(avg, minT) THEN "too dark"
    ELSE "within range"

\* the directories os.walk yields: every directory holding a file
Directories(t) == {<<p[1], p[2]>> : p \in DOMAIN t}

\* the files os.walk lists for a directory
FilesIn(t, dir) == {p[3] : p \in {q \in DOMAIN t : <<q[1], q[2]>> = dir}}

\* mutant: the view directories of every category are looked at
SiblingCandidatesAnyCategory(t, category, file) ==
    {p \in DOMAIN t : Lower(p[2]) # "top" /\ p[3] = file}

\* mutant: only the view "front_left" is looked at
SiblingCandidatesOneView(t, category, file) ==
    {p \in DOMAIN t : p[1] = category /\ p[2] = "front_left" /\ p[3] = file}

\* the candidates of the sibling loop that exist: os.listdir(category_dir),
\* os.path.isdir(view_path) and view.lower() != "top", os.path.exists(candidate)
SiblingCandidates(t, category, file) ==
    {p \in DOMAIN t : /\ p[1] = category
                      /\ Lower(p[2]) # "top"
                      /\ p[3] = file}

\* mutant: the reference-view image itself is left in place
RemovedOnRejectSiblingsOnly(top_img_path, cands) == cands

\* what a rejection removes when no removal fails: os.remove(top_img_path)
\* and os.remove(candidate) for every candidate
RemovedOnReject(top_img_path, cands) == {top_img_path} \cup cands

Line(kind, p, avg, reason) ==
    [pass |-> pass, kind |-> kind, path |-> p, avg |-> avg, reason |-> reason]

\* the top-view images analyze_brightness_distribution can read
Analyzed(t) == {p \in DOMAIN t : IsTopPath(p) /\ IsPng(p[3]) /\ t[p].img # Corrupt}

\* analyze_brightness_distribution(output_folder): with brightnesses not
\* empty, step = len(brightnesses) // 10 and range(0, len(brightnesses), step)
\* raises ValueError for a step of 0; nothing catches it
analysis_raises(t) ==
    LET brightnesses == Cardinality(Analyzed(t))
        step == brightnesses \div 10
    IN  brightnesses # 0 /\ step = 0

\* only the empty reference is opened inside the try
raises_empty_only(empty_ref, object_ref) == empty_ref = Corrupt

\* compute_thresholds_from_references: Image.open raises inside the try
raises_in_try(empty_ref, object_ref) == empty_ref = Corrupt \/ object_ref = Corrupt

\* __main__ up to the call: the analysis of the brightness distribution,
\* then the thresholds from the reference images; an unreadable reference
\* image ends the script with sys.exit(1), an exception in the analysis ends
\* it with a traceback.  The script makes one call, with DEBUG_MODE as edited
\* in the file.
Main ==
    /\ fpc = "start"
    /\ \E e \in RefImages, o \in RefImages, m \in Margins :
          IF analysis_raises(tree)
          THEN /\ fpc' = "exit"
               /\ out' = out \cup {Line("Traceback", None, None, "ValueError")}
               /\ UNCHANGED <<max_threshold, min_threshold, refs>>
          ELSE IF raises_in_try(e, o)
          THEN /\ fpc' = "exit"
               /\ out' = out \cup {Line("Error computing thresholds", None, None, "")}
               /\ refs' = <<e, o, m>>
               /\ UNCHANGED <<max_threshold, min_threshold>>
          ELSE /\ fpc' = "call"
               /\ max_threshold' = compute_thresholds_from_references(e, o, m)[1]
               /\ min_threshold' = compute_thresholds_from_references(e, o, m)[2]
               /\ refs' = <<e, o, m>>
               /\ UNCHANGED out
    /\ callsLeft' = 1
    /\ UNCHANGED <<tree, debug_mode, pass, walkTodo, root, files, deleted_count,
                   kept_count, removed, raised, calls, result>>
    /\ UNCHANGED mainVars
    /\ UNCHANGED <<poseVars, made, bootVars>>

\* the thresholds a caller of process_top_view_renders_with_sync passes:
\* 245.0 and 185.0, or 245.0 and no lower threshold
ThresholdArgs == {<<<<245, 1>>, <<185, 1>>>>, <<<<245, 1>>, None>>}

\* a caller that runs the filter on one folder several times with the same
\* thresholds
Call ==
    /\ fpc = "start"
    /\ fpc' = "call"
    /\ \E th \in ThresholdArgs :
          /\ max_threshold' = th[1]
          /\ min_threshold' = th[2]
    /\ callsLeft' = Cardinality(Passes)
    /\ UNCHANGED <<tree, debug_mode, pass, walkTodo, root, files, deleted_count,
                   kept_count, out, removed, raised, calls, result, refs>>
    /\ UNCHANGED mainVars
    /\ UNCHANGED <<poseVars, made, bootVars>>

\* the directories of the walk whose files are looked at
TopDirs(t) == {dir \in Directories(t) : IsTopDir(dir)}

\* entry of process_top_view_renders_with_sync; a dry run comes first if at all
BeginPass ==
    /\ fpc = "call"
    /\ callsLeft > 0
    /\ callsLeft' = callsLeft - 1
    /\ \E d \in (IF pass = 0 THEN BOOLEAN ELSE {FALSE}) : debug_mode' = d
    /\ pass' = pass + 1
    /\ deleted_count' = 0
    /\ kept_count' = 0
    /\ walkTodo' = TopDirs(tree)
    /\ root' = None
    /\ files' = {}
    /\ raised' = FALSE
    /\ removed' = [removed EXCEPT ![pass + 1] = {}]
    /\ calls' = [calls EXCEPT ![pass + 1] = [tree |-> tree, debug |-> debug_mode']]
    /\ fpc' = "walk"
    /\ UNCHANGED <<tree, max_threshold, min_threshold, out, result, refs>>
    /\ UNCHANGED mainVars
    /\ UNCHANGED <<poseVars, made, bootVars>>

\* one iteration of  for root, dirs, files in os.walk(output_folder)  for a
\* directory named "top"; the iterations for other directories do nothing
WalkDir ==
    /\ fpc = "walk"
    /\ files = {}
    /\ \E dir \in walkTodo :
          /\ walkTodo' = walkTodo \ {dir}
          /\ root' = dir
          /\ files' = {f \in FilesIn(tree, dir) : IsPng(f)}
    /\ UNCHANGED <<tree, fpc, max_threshold, min_threshold, debug_mode, pass,
                   deleted_count, kept_count, out, removed, raised, calls, result,
                   refs, callsLeft>>
    /\ UNCHANGED mainVars
    /\ UNCHANGED <<poseVars, made, bootVars>>

\* a try statement around the for loop: the except clause ends the loop
files_after_loop_left(rest) == {}

\* the try statement is inside the for loop: after the except clause the
\* loop goes on with the files that are left
files_after_except(rest) == rest

\* one iteration of  for file in files, the whole try statement
FilterImage ==
    /\ fpc = "walk"
    /\ \E file \in files :
        LET top_img_path == <<root[1], root[2], file>>
            category == root[1]
            img == tree[top_img_path].img
            avg == MeanBrightness(img)
            reason == Reason(avg, max_threshold, min_threshold)
            cands == SiblingCandidates(tree, category, file)
            stuck == {p \in cands : tree[p].locked}
        IN
        /\ files' = IF img = Corrupt THEN files_after_except(files \ {file})
                               ELSE files \ {file}
        /\ IF img = Corrupt
           THEN \* Image.open raises
                /\ out' = out \cup {Line("Error processing", top_img_path, None, "")}
                /\ raised' = TRUE
                /\ UNCHANGED <<tree, deleted_count, kept_count, removed>>
           ELSE IF reason = "within range"
           THEN /\ out' = out \cup {Line("Keeping", top_img_path, avg, reason)}
                /\ kept_count' = kept_count + 1
                /\ UNCHANGED <<tree, deleted_count, removed, raised>>
           ELSE IF debug_mode
           THEN /\ out' = out \cup {Line("Would delete", top_img_path, avg, reason)}
                /\ deleted_count' = deleted_count + 1
                /\ UNCHANGED <<tree, kept_count, removed, raised>>
           ELSE IF tree[top_img_path].locked
           THEN \* os.remove(top_img_path) raises
                /\ out' = out \cup {Line("Deleting", top_img_path, avg, reason),
                                    Line("Error processing", top_img_path, None, "")}
                /\ raised' = TRUE
                /\ UNCHANGED <<tree, deleted_count, kept_count, removed>>
           ELSE IF stuck = {}
           THEN /\ out' = out \cup {Line("Deleting", top_img_path, avg, reason)}
                /\ tree' = Remove(tree, RemovedOnReject(top_img_path, cands))
                /\ removed' = [removed EXCEPT
                                 ![pass] = @ \cup RemovedOnReject(top_img_path, cands)]
                /\ deleted_count' = deleted_count + 1
                /\ UNCHANGED <<kept_count, raised>>
           ELSE \* os.remove(candidate) raises at the first candidate that
                \* cannot be removed; os.listdir gives the views in any order
                \E done \in SUBSET (cands \ stuck) :
                   /\ out' = out \cup {Line("Deleting", top_img_path, avg, reason),
                                       Line("Error processing", top_img_path, None, "")}
                   /\ tree' = Remove(tree, RemovedOnReject(top_img_path, done))
                   /\ removed' = [removed EXCEPT
                                    ![pass] = @ \cup RemovedOnReject(top_img_path, done)]
                   /\ raised' = TRUE
                   /\ UNCHANGED <<deleted_count, kept_count>>
    /\ UNCHANGED <<fpc, max_threshold, min_threshold, debug_mode, pass, walkTodo,
                   root, calls, result, refs, callsLeft>>
    /\ UNCHANGED mainVars
    /\ UNCHANGED <<poseVars, made, bootVars>>

\* the summary line and  return deleted_count, kept_count
EndPass ==
    /\ fpc = "walk"
    /\ walkTodo = {}
    /\ files = {}
    /\ fpc' = "call"
    /\ result' = [result EXCEPT ![pass] = <<deleted_count, kept_count>>]
    /\ out' = out \cup {Line("Summary", None, <<deleted_count, kept_count>>, "")}
    /\ UNCHANGED <<tree, max_threshold, min_threshold, debug_mode, pass, walkTodo,
                   root, files, deleted_count, kept_count, removed, raised, calls,
                   refs, callsLeft>>
    /\ UNCHANGED mainVars
    /\ UNCHANGED <<poseVars, made, bootVars>>

FilterStart ==
    /\ fpc = "start"
    /\ max_threshold = None
    /\ min_threshold = None
    /\ debug_mode = FALSE
    /\ pass = 0
    /\ walkTodo = {}
    /\ root = None
    /\ files = {}
    /\ deleted_count = 0
    /\ kept_count = 0
    /\ out = {}
    /\ removed = [i \in Passes |-> {}]
    /\ raised = FALSE
    /\ calls = [i \in Passes |-> [tree |-> <<>>, debug |-> FALSE]]
    /\ result = [i \in Passes |-> None]
    /\ refs = None
    /\ callsLeft = 0

----------------------------------------------------------------------------
(* config.py *)

\* BOX_SIZE = 0.7
BOX_SIZE == 7000
MAX_OBJECT_DIMENSION == (7 * BOX_SIZE) \div 10
MIN_OBJECT_DIMENSION == (3 * BOX_SIZE) \div 10

\* the keys of CAMERA_BASE_POSITIONS, in the order of the dict
CameraViews == <<"front_left", "front_right", "back_left", "back_right", "top">>

----------------------------------------------------------------------------
(* The input folder: <category>/<model>.glb *)

\* what a .glb file holds:
\*   "mesh"     one mesh, centred and axis-aligned
\*   "meshes"   two meshes
\*   "tilted"   one mesh under a rotated node: its corners reach further out
\*   "point"    one mesh without extent
\*   "far_point" one mesh without extent, under a node placed away from the
\*              origin of the file
\*   "no_mesh"  objects, none of them a mesh (empties)
\*   "nothing"  no object at all
\*   "broken"   a file the importer raises on
AssetKinds == {"mesh", "meshes", "tilted", "point", "far_point", "no_mesh", "nothing",
               "broken"}

InputCategories == {"chair", "top"}

ModelInfos == [category : InputCategories, model_name : {"m"}, asset : AssetKinds]

ModelSets == {S \in SUBSET ModelInfos :
                 /\ Cardinality(S) \in 1..MaxModels
                 /\ \A a, b \in S : a.category = b.category => a = b}

Ident(m) == <<m.category, m.model_name>>

----------------------------------------------------------------------------
(* The scene: objects are [name, type, by, reach, at], by being the         *)
(* variation that created the object; reach holds the bounding box corners  *)
(* in world space as percentages of the largest dimension, {} when it has   *)
(* no extent; at is where the parent of the object puts an object whose     *)
(* location is (0, 0, 0)                                                     *)

Obj(name, type, by, reach) ==
    [name |-> name, type |-> type, by |-> by, reach |-> reach, at |-> <<0, 0, 0>>]

\* a box of the given half extents (percent of the largest dimension)
BoxCorners(x, y, z) == {<<sx * x, sy * y, sz * z>> : sx \in {-1, 1}, sy \in {-1, 1}, sz \in {-1, 1}}

\* the objects the glTF importer adds for a file
Imported(m, by) ==
    CASE m.asset = "mesh" ->
            {Obj(<<"mesh", m.category, m.model_name, 0>>, "MESH", by, BoxCorners(50, 30, 20))}
      [] m.asset = "meshes" ->
            {Obj(<<"mesh", m.category, m.model_name, 0>>, "MESH", by, BoxCorners(50, 30, 20)),
             Obj(<<"mesh", m.category, m.model_name, 1>>, "MESH", by, BoxCorners(50, 30, 20))}
      [] m.asset = "tilted" ->
            {Obj(<<"mesh", m.category, m.model_name, 0>>, "MESH", by, BoxCorners(87, 50, 50))}
      [] m.asset = "point" ->
            {Obj(<<"mesh", m.category, m.model_name, 0>>, "MESH", by, {})}
      [] m.asset = "far_point" ->
            {[Obj(<<"mesh", m.category, m.model_name, 0>>, "MESH", by, {})
                 EXCEPT !.at = <<2 * BOX_SIZE, 0, 0>>]}
      [] m.asset = "no_mesh" ->
            {Obj(<<"empty", m.category, m.model_name, 0>>, "EMPTY", by, {})}
      [] OTHER -> {}

\* create_box: bpy.ops.mesh.primitive_cube_add, named "Display_Box"
Display_Box(by) == Obj(<<"Display_Box">>, "MESH", by, BoxCorners(50, 50, 50))

\* create_box: the material "White_Interior" of the box
White_Interior(by) == Obj(<<"White_Interior">>, "MATERIAL", by, {})

\* bpy.ops.rigidbody.world_add: the rigid body world of the scene
RigidBodyWorld(by) == Obj(<<"RigidBodyWorld">>, "WORLD", by, {})

\* what Blender starts with
FactoryScene == {Obj(<<"Cube">>, "MESH", <<>>, BoxCorners(50, 50, 50)),
                 Obj(<<"Camera">>, "CAMERA", <<>>, {}),
                 Obj(<<"Light">>, "LIGHT", <<>>, {})}

IsObject(e) == e.type \in {"MESH", "LIGHT", "CAMERA", "EMPTY"}

\* only the meshes are selected and deleted
delete_meshes(sc) == {e \in sc : e.type # "MESH"}

\* bpy.ops.object.select_all(action='SELECT'), bpy.ops.object.delete
delete_selected(sc) == {e \in sc : ~IsObject(e)}

\* the users of a material: the boxes it was appended to
users(block, sc) ==
    Cardinality({o \in sc : IsObject(o) /\ o.name = <<"Display_Box">> /\ o.by = block.by})

\* orphans_purge and the loops over bpy.data: blocks without users go
purge(sc) == {e \in sc : e.type = "MATERIAL" => users(e, sc) > 0}

\* if scene.rigidbody_world: bpy.ops.rigidbody.world_remove()
world_remove(sc) == {e \in sc : e.type # "WORLD"}

\* create_box(): the box and its material
create_box(by) == {Display_Box(by), White_Interior(by)}

\* clear_scene() on a scene
clear_scene(sc, by) ==
    world_remove(purge(delete_selected(sc))) \cup {RigidBodyWorld(by)} \cup create_box(by)

\* setup_lighting: four area lights
Lights(by) == {Obj(<<"LED", n>>, "LIGHT", by, {}) : n \in {"Top", "Bottom", "Right", "Left"}}

\* setup_cameras: a camera and a look-at target per view
Rig(by) == {Obj(<<"Camera", CameraViews[i]>>, "CAMERA", by, {}) : i \in DOMAIN CameraViews}
           \cup {Obj(<<"Target", CameraViews[i]>>, "EMPTY", by, {}) : i \in DOMAIN CameraViews}

----------------------------------------------------------------------------
(* The module random: a state is the last seed and the draws made since.    *)
(* An unseeded generator starts from operating-system entropy, which differs *)
(* from run to run: seed -run.                                               *)

Rng(seed, n) == [seed |-> seed, n |-> n]
Advance(r, k) == [r EXCEPT !.n = @ + k]

\* random.uniform calls: create_box 6, setup_lighting 1 + 3, load_model 1,
\* setup_cameras 7 per camera, randomize_model_pose 2 + 3
DrawsCreateBox == 6
DrawsLighting == 4
DrawsLoad == 1
DrawsPerCamera == 7
DrawsPose == 5

\* hash(name) % 1000: str hashes are salted per process
HashSalts == {0, 1}
HashMod1000(name, s) ==
    ((IF name = <<"Display_Box">> THEN 7
      ELSE IF name[2] = "chair" THEN 100
      ELSE 200) + 333 * s) % 1000

----------------------------------------------------------------------------
(* src/model_handler.py *)

\* obj.matrix_world @ Vector(v) for v in obj.bound_box, in hundredths of the
\* unit of length, of an object scaled to the largest dimension dim; an
\* object without extent has its eight corners in one point
world_corners(obj, dim) ==
    IF obj.reach = {}
    THEN {<<100 * obj.at[1], 100 * obj.at[2], 100 * obj.at[3]>>}
    ELSE {<<v[1] * dim + 100 * obj.at[1], v[2] * dim + 100 * obj.at[2],
            v[3] * dim + 100 * obj.at[3]>> : v \in obj.reach}

\* is_object_inside_box(obj, box_size, tol=0.05)
is_object_inside_box(obj, dim, box_size) ==
    LET half == box_size \div 2
        tol == 500
        inside(c) == -100 * (half + tol) <= c /\ c <= 100 * (half + tol)
    IN  \A world_v \in world_corners(obj, dim) :
            inside(world_v[1]) /\ inside(world_v[2]) /\ inside(world_v[3])

\* the values random.uniform(target_min_dimension, target_max_dimension) takes
TargetDimensions == {MIN_OBJECT_DIMENSION, MAX_OBJECT_DIMENSION}

\* mesh_objects of load_model: the selected meshes; if there is none, every
\* mesh of bpy.data.objects
mesh_objects(before, imported) ==
    LET selected == {o \in imported : o.type = "MESH"}
    IN  IF selected # {} THEN selected
        ELSE {o \in before \cup imported : o.type = "MESH"}

\* the object load_model works on: the only mesh, or the active object of
\* the join, mesh_objects[0]
imported_object(meshes) ==
    CHOOSE o \in meshes : \A p \in meshes \ {o} : o.name[Len(o.name)] < p.name[Len(p.name)]

\* load_model(model_path) on a scene: whether it raises, whether it returns an
\* object (found) and which, how it ended, the scene it leaves and the
\* number of random draws it made
load_model(before, m, by, target_dimension) ==
    LET imported == Imported(m, by)
        meshes == mesh_objects(before, imported)
        obj == imported_object(meshes)
        joined == (before \cup imported) \ (IF Cardinality(meshes) > 1 THEN meshes \ {obj} ELSE {})
        outcome(raises, found, object, how, sc, n) ==
            [raises |-> raises, found |-> found, object |-> object, how |-> how,
             scene |-> sc, draws |-> n]
    IN  IF m.asset = "broken"
        THEN outcome(TRUE, FALSE, Display_Box(by), "raised", before, 0)
        ELSE IF imported = {}
        THEN outcome(FALSE, FALSE, Display_Box(by), "no objects", before, 0)
        ELSE IF meshes = {}
        THEN outcome(FALSE, FALSE, Display_Box(by), "no mesh", before \cup imported, 0)
        ELSE IF obj.reach = {}
        THEN outcome(FALSE, TRUE, obj, "loaded", joined, 0)
        ELSE IF ~is_object_inside_box(obj, target_dimension, BOX_SIZE)
        THEN outcome(FALSE, FALSE, Display_Box(by), "not inside", joined, DrawsLoad)
        ELSE outcome(FALSE, TRUE, obj, "loaded", joined, DrawsLoad)

\* seed = variation_index + hash(model_object.name) % 1000
Seed(object, variation_index, s) == variation_index + HashMod1000(object.name, s)

----------------------------------------------------------------------------
(* main.py *)

By == <<run, cur.category, cur.model_name, variation>>

Drew(what) == [run |-> run, model |-> Ident(cur), variation |-> variation,
               what |-> what, at |-> rng]

Ended(how) == Append(history, [run |-> run, model |-> Ident(cur), how |-> how])

\* the names config.py binds to the table of camera positions, each with
\* the keys of the table: config.py as it is
ShippedConfig == [CAMERA_BASE_POSITIONS |-> CameraViews]

\* a config.py that binds the table to the name CAMERA_POSITIONS as well
ConfigWithBothNames == [CAMERA_BASE_POSITIONS |-> CameraViews, CAMERA_POSITIONS |-> CameraViews]

\* from config import INPUT_PATH, OUTPUT_PATH, CAMERA_POSITIONS
imports_of_output == {"CAMERA_POSITIONS"}

\* categories = [d for d in os.listdir(INPUT_PATH) if os.path.isdir(...)]
categories_of(ms) == {m.category : m \in ms}

\* the directories create_output_folders makes: for view in
\* CAMERA_POSITIONS.keys(), for category in categories
create_output_folders(cfg, categories) ==
    {<<cfg.CAMERA_POSITIONS[i], c>> : i \in DOMAIN cfg.CAMERA_POSITIONS, c \in categories}

\* the import statements of main.py: from src.output import ... runs
\* output.py, whose from config import ... raises ImportError for a name
\* config.py does not bind; main() is then never called
ImportModules ==
    /\ mpc = "import"
    /\ mpc' = IF imports_of_output \subseteq DOMAIN config THEN "start" ELSE "ImportError"
    /\ UNCHANGED <<models, faulty, todo, cur, variation, successful, failed, history,
                   scene, model, rng, salt, run, draws, views, loads, renders>>
    /\ UNCHANGED filterVars
    /\ UNCHANGED <<poseVars, made, bootVars>>

\* main up to the loop: create_output_folders, record_config, find_models
StartMain ==
    /\ mpc = "start"
    /\ mpc' = "next_model"
    /\ dirs' = dirs \cup create_output_folders(config, categories_of(models))
    /\ todo' = models
    /\ successful' = 0
    /\ failed' = 0
    /\ \E s \in HashSalts : salt' = s
    /\ UNCHANGED <<models, faulty, cur, variation, history, scene, model, rng, run,
                   draws, views, loads, renders>>
    /\ UNCHANGED filterVars
    /\ UNCHANGED <<poseVars, made, config>>

\* for i, model_info in enumerate(models): the call render_model(model_info)
NextModel ==
    /\ mpc = "next_model"
    /\ \E m \in todo :
          /\ cur' = m
          /\ todo' = todo \ {m}
    /\ variation' = 0
    /\ mpc' = "clear"
    /\ UNCHANGED <<models, faulty, successful, failed, history, scene, model, rng,
                   salt, run, draws, views, loads, renders>>
    /\ UNCHANGED filterVars
    /\ UNCHANGED <<poseVars, made, bootVars>>

\* the loop of main is over: the summary
Finish ==
    /\ mpc = "next_model"
    /\ todo = {}
    /\ mpc' = "done"
    /\ UNCHANGED <<models, faulty, todo, cur, variation, successful, failed, history,
                   scene, model, rng, salt, run, draws, views, loads, renders>>
    /\ UNCHANGED filterVars
    /\ UNCHANGED <<poseVars, made, bootVars>>

\* an exception that leaves main: nothing is counted, no model follows
Propagated ==
    /\ failed' = failed
    /\ history' = Ended("exception")
    /\ mpc' = "done"
    /\ UNCHANGED successful

\* except Exception in main: failed += 1, on to the next model
Caught ==
    /\ failed' = failed + 1
    /\ history' = Ended("exception")
    /\ mpc' = "next_model"
    /\ UNCHANGED successful

\* if not model: continue, on to the next variation of the model
SkipVariation ==
    /\ failed' = failed
    /\ history' = history
    /\ mpc' = "clear"
    /\ variation' = variation + 1
    /\ UNCHANGED successful

\* if not model: return False; main counts the model as failed
ReturnFalse ==
    /\ failed' = failed + 1
    /\ history' = Ended("False")
    /\ mpc' = "next_model"
    /\ UNCHANGED <<successful, variation>>

\* clear_scene(): every object is deleted, then create_box()
ClearScene ==
    /\ mpc = "clear"
    /\ variation < VARIATIONS_PER_MODEL
    /\ scene' = clear_scene(scene, By)
    /\ rng' = Advance(rng, DrawsCreateBox)
    /\ mpc' = "light"
    /\ UNCHANGED <<models, faulty, todo, cur, variation, successful, failed, history,
                   model, salt, run, draws, views, loads, renders>>
    /\ UNCHANGED filterVars
    /\ UNCHANGED <<poseVars, made, bootVars>>

\* the loop over the variations is over: return True
ReturnTrue ==
    /\ mpc = "clear"
    /\ variation = VARIATIONS_PER_MODEL
    /\ successful' = successful + 1
    /\ history' = Ended("True")
    /\ mpc' = "next_model"
    /\ UNCHANGED <<models, faulty, todo, cur, variation, failed, scene, model, rng,
                   salt, run, draws, views, loads, renders>>
    /\ UNCHANGED filterVars
    /\ UNCHANGED <<poseVars, made, bootVars>>

\* setup_lighting()
SetupLighting ==
    /\ mpc = "light"
    /\ scene' = scene \cup Lights(By)
    /\ draws' = draws \cup {Drew("lighting")}
    /\ rng' = Advance(rng, DrawsLighting)
    /\ mpc' = "load"
    /\ UNCHANGED <<models, faulty, todo, cur, variation, successful, failed, history,
                   model, salt, run, views, loads, renders>>
    /\ UNCHANGED filterVars
    /\ UNCHANGED <<poseVars, made, bootVars>>

\* model = load_model(model_path); if not model: return False
LoadModel ==
    /\ mpc = "load"
    /\ \E target_dimension \in TargetDimensions :
         LET r == load_model(scene, cur, By, target_dimension)
         IN  /\ scene' = r.scene
             /\ rng' = Advance(rng, r.draws)
             /\ loads' = loads \cup {[run |-> run, model |-> Ident(cur),
                                      variation |-> variation, before |-> scene,
                                      imported |-> Imported(cur, By),
                                      raises |-> r.raises, found |-> r.found,
                                      inside |-> is_object_inside_box(r.object,
                                                     target_dimension, BOX_SIZE),
                                      how |-> r.how, object |-> r.object]}
             /\ IF r.raises THEN Caught /\ UNCHANGED <<model, variation>>
                ELSE IF ~r.found THEN ReturnFalse /\ UNCHANGED model
                ELSE /\ model' = r.object
                     /\ mpc' = "cameras"
                     /\ UNCHANGED <<successful, failed, history, variation>>
    /\ UNCHANGED <<models, faulty, todo, cur, salt, run, draws, views, renders>>
    /\ UNCHANGED filterVars
    /\ UNCHANGED <<poseVars, made, bootVars>>

\* cameras = setup_cameras()
SetupCameras ==
    /\ mpc = "cameras"
    /\ scene' = scene \cup Rig(By)
    /\ draws' = draws \cup {Drew("cameras")}
    /\ rng' = Advance(rng, DrawsPerCamera * Len(CameraViews))
    /\ mpc' = "pose"
    /\ UNCHANGED <<models, faulty, todo, cur, variation, successful, failed, history,
                   model, salt, run, views, loads, renders>>
    /\ UNCHANGED filterVars
    /\ UNCHANGED <<poseVars, made, bootVars>>

\* simulation_frames=60
simulation_frames == 60

\* the k-th value random.uniform returns after random.seed(seed)
Uniform(seed, k) == <<"uniform", seed, k>>

\* pos_z = ((BOX_SIZE / 2) - (MAX_OBJECT_DIMENSION / 2)) * 0.9
pos_z == (((BOX_SIZE \div 2) - (MAX_OBJECT_DIMENSION \div 2)) * 9) \div 10

\* the pose the object is placed in: in the air, above the centre of the box
initial_pose(seed) ==
    [position |-> <<Uniform(seed, 1), Uniform(seed, 2), pos_z>>,
     rotation |-> <<Uniform(seed, 3), Uniform(seed, 4), Uniform(seed, 5)>>]

\* where the rigid body simulation has taken an object after some steps
simulated(initial, steps) ==
    [position |-> <<<<"simulated", initial.position[1], steps>>,
                    <<"simulated", initial.position[2], steps>>, 0>>,
     rotation |-> <<<<"simulated", initial.rotation[1], steps>>,
                    <<"simulated", initial.rotation[2], steps>>,
                    <<"simulated", initial.rotation[3], steps>>>>]

\* the frames of  for frame in range(start_frame, start_frame +
\* simulation_frames): scene.frame_set(frame)  when the loop is left after
\* visited calls
frames_set(start_frame, visited) == [i \in 1..visited |-> start_frame + i - 1]

\* the simulation moves the object although it has no rigid body
final_pose_simulated(initial, attached, frames) == simulated(initial, Len(frames) - 1)

\* model_object.location and rotation_euler after the loop: an object with
\* a rigid body has been moved by the steps from the first frame on
final_pose(initial, attached, frames) ==
    IF attached /\ Len(frames) > 1 THEN simulated(initial, Len(frames) - 1) ELSE initial

\* math.degrees
degrees(angle) == <<"degrees", angle>>

\* rotation, position = randomize_model_pose(model, variation_index=variation):
\* scene.frame_set(1) stands outside every try statement;
\* bpy.ops.rigidbody.object_add and the loop of scene.frame_set stand each
\* inside a try statement of their own
RandomizePose ==
    /\ mpc = "pose"
    /\ LET initial == initial_pose(Seed(model, variation, salt))
       IN  \E reset \in (IF unstable THEN BOOLEAN ELSE {TRUE}) :
             IF ~reset
             THEN \* scene.frame_set(1) raises
                  /\ pose' = [run |-> run, model |-> Ident(cur), variation |-> variation,
                              initial |-> initial, rigid_body |-> "not reached",
                              frames |-> <<>>, raised |-> TRUE, final |-> initial,
                              returned |-> None]
                  /\ Caught
                  /\ UNCHANGED <<views, variation>>
             ELSE \E attached \in (IF unstable THEN BOOLEAN ELSE {TRUE}),
                     visited \in (IF unstable THEN 0..simulation_frames
                                              ELSE {simulation_frames}) :
                     LET frames == frames_set(1, visited)
                         final == final_pose(initial, attached, frames)
                     IN  /\ pose' = [run |-> run, model |-> Ident(cur),
                                     variation |-> variation, initial |-> initial,
                                     rigid_body |-> IF attached THEN "added" ELSE "failed",
                                     frames |-> frames, raised |-> FALSE, final |-> final,
                                     returned |-> <<<<degrees(final.rotation[1]),
                                                      degrees(final.rotation[2]),
                                                      degrees(final.rotation[3])>>,
                                                    final.position>>]
                         /\ views' = CameraViews
                         /\ mpc' = "render"
                         /\ UNCHANGED <<variation, successful, failed, history>>
    /\ draws' = draws \cup {[Drew("pose") EXCEPT !.at = Rng(Seed(model, variation, salt), 0)]}
    /\ rng' = Rng(Seed(model, variation, salt), DrawsPose)
    /\ UNCHANGED <<models, faulty, todo, cur, scene, model, salt, run, loads, renders>>
    /\ UNCHANGED filterVars
    /\ UNCHANGED <<unstable, rendered, made, bootVars>>

\* a file name without the number of the variation
output_path_one_file(view, category, model_name, k) ==
    <<view, category, <<<<model_name>>, ".png">>>>

\* output_file = f"{model_name}_v{variation+1}.png"
\* output_path = os.path.join(OUTPUT_PATH, view, category, output_file)
output_path(view, category, model_name, k) ==
    <<view, category, <<<<model_name, k + 1>>, ".png">>>>

\* what bpy.ops.render.render writes: the brightness of a picture is taken
\* to depend on the view and on what stands in the box only; a box with
\* nothing in it renders as the empty reference
Rendered(view, object) ==
    IF view # "top" THEN OtherViewImage
    ELSE IF object.name = <<"Display_Box">> THEN <<246, 246>>
    ELSE IF object.reach = {} THEN <<240, 250>>
    ELSE <<180, 190>>

\* one iteration of  for view, camera in cameras.items()
Render ==
    /\ mpc = "render"
    /\ LET view == Head(views)
           path == output_path(view, cur.category, cur.model_name, variation)
       IN  \E ok \in (IF faulty THEN BOOLEAN ELSE {TRUE}) :
             IF ~ok
             THEN \* bpy.ops.render.render raises
                  /\ Caught
                  /\ UNCHANGED <<tree, views, variation, renders, rendered>>
             ELSE /\ tree' = [p \in DOMAIN tree \cup {path} |->
                                 IF p = path
                                 THEN [img |-> Rendered(view, model), locked |-> FALSE]
                                 ELSE tree[p]]
                  /\ renders' = renders \cup {[run |-> run, model |-> Ident(cur),
                                               variation |-> variation, view |-> view,
                                               path |-> path]}
                  /\ rendered' = rendered + 1
                  /\ views' = Tail(views)
                  /\ IF Tail(views) = <<>>
                     THEN variation' = variation + 1 /\ mpc' = "clear"
                     ELSE UNCHANGED <<variation, mpc>>
                  /\ UNCHANGED <<successful, failed, history>>
    /\ UNCHANGED <<models, faulty, todo, cur, scene, model, rng, salt, run, draws, loads>>
    /\ UNCHANGED <<fpc, max_threshold, min_threshold, debug_mode, pass, walkTodo,
                   root, files, deleted_count, kept_count, out, removed, raised,
                   calls, result, refs, callsLeft>>
    /\ UNCHANGED <<unstable, pose, made, bootVars>>

MainNext == StartMain \/ NextModel \/ Finish \/ ClearScene \/ ReturnTrue
            \/ SetupLighting \/ LoadModel \/ SetupCameras \/ RandomizePose \/ Render

\* Blender as started: the factory scene, an unseeded generator
MainFresh ==
    /\ todo = {}
    /\ cur = [category |-> "", model_name |-> "", asset |-> ""]
    /\ variation = 0
    /\ successful = 0
    /\ failed = 0
    /\ history = <<>>
    /\ scene = FactoryScene
    /\ model = Display_Box(<<>>)
    /\ rng = Rng(-1, 0)
    /\ salt = 0
    /\ run = 1
    /\ draws = {}
    /\ views = <<>>
    /\ loads = {}
    /\ renders = {}
    /\ pose = None
    /\ rendered = 0
    /\ dirs = {}

\* main.py with its modules imported, under a config.py whose table has both
\* names
MainStart ==
    /\ mpc = "start"
    /\ config = ConfigWithBothNames
    /\ MainFresh

\* main.py is not run
MainIdle ==
    /\ models = {}
    /\ faulty = FALSE
    /\ unstable = FALSE
    /\ MainStart

\* one run of main.py on an input folder, into an empty output folder
Init ==
    /\ models \in ModelSets
    /\ faulty \in BOOLEAN
    /\ unstable = FALSE
    /\ MainStart
    /\ made = None
    /\ tree = <<>>
    /\ FilterStart

Next == MainNext

Spec == Init /\ [][Next]_vars

----------------------------------------------------------------------------
(* The specifications of the quality filter *)

\* process_top_view_renders_with_sync called on a dataset laid out as
\* <category>/<view>/<file>
FilterInit ==
    /\ tree \in Trees
    /\ FilterStart
    /\ MainIdle
    /\ made = None

FilterNext == Call \/ BeginPass \/ WalkDir \/ FilterImage \/ EndPass

SpecFilter == FilterInit /\ [][FilterNext]_vars

\* the script postprocess.py run on a dataset of one image set per category
ScriptTrees ==
    TreesOver({<<"chair", v, <<<<"m", 1>>, ".png">>>> : v \in {"top", "front_left"}}, 2)

ScriptInit ==
    /\ tree \in ScriptTrees
    /\ FilterStart
    /\ MainIdle
    /\ made = None

ScriptNext == Main \/ BeginPass \/ WalkDir \/ FilterImage \/ EndPass

SpecScript == ScriptInit /\ [][ScriptNext]_vars

\* main.py, then process_top_view_renders_with_sync on the folder it wrote
PipelineInit ==
    /\ models \in {S \in ModelSets : \A m \in S : m.asset \in {"mesh", "nothing"}}
    /\ faulty = FALSE
    /\ unstable = FALSE
    /\ MainStart
    /\ made = None
    /\ tree = <<>>
    /\ FilterStart

PipelineNext == MainNext \/ (mpc = "done" /\ FilterNext)

SpecPipeline == PipelineInit /\ [][PipelineNext]_vars

\* main.py is started again on the same input folder, in a new process
Restart ==
    /\ mpc = "done"
    /\ run < Cardinality(Passes)
    /\ run' = run + 1
    /\ rng' = Rng(-(run + 1), 0)
    /\ mpc' = "start"
    /\ UNCHANGED <<models, faulty, todo, cur, variation, successful, failed, history,
                   scene, model, salt, draws, views, loads, renders>>
    /\ UNCHANGED filterVars
    /\ UNCHANGED <<poseVars, made, bootVars>>

RerunsInit ==
    /\ models \in {S \in ModelSets : \A m \in S : m.asset \in {"mesh", "meshes"}}
    /\ faulty = FALSE
    /\ unstable = FALSE
    /\ MainStart
    /\ made = None
    /\ tree = <<>>
    /\ FilterStart

RerunsNext == MainNext \/ Restart

SpecReruns == RerunsInit /\ [][RerunsNext]_vars

\* main.py on one model, in an environment where the rigid body operators
\* and scene.frame_set can raise
PoseInit ==
    /\ models \in {S \in ModelSets : Cardinality(S) = 1 /\ \A m \in S : m.asset = "mesh"}
    /\ faulty = FALSE
    /\ unstable = TRUE
    /\ MainStart
    /\ made = None
    /\ tree = <<>>
    /\ FilterStart

SpecPose == PoseInit /\ [][MainNext]_vars

\* blender runs main.py from the first import on, under
\* config.py as it is or with the table bound to both names
StartupInit ==
    /\ models \in {S \in ModelSets : \A m \in S : m.asset = "mesh"}
    /\ faulty = FALSE
    /\ unstable = FALSE
    /\ mpc = "import"
    /\ config \in {ShippedConfig, ConfigWithBothNames}
    /\ MainFresh
    /\ made = None
    /\ tree = <<>>
    /\ FilterStart

StartupNext == ImportModules \/ MainNext

SpecStartup == StartupInit /\ [][StartupNext]_vars

----------------------------------------------------------------------------
(* src/scene_setup.py: the values computed from random draws.  Colour       *)
(* components and offsets are in thousandths, lengths in units of 0.1 mm.   *)

\* the draws random.uniform can return: a grid that covers the ranges of
\* config.py and goes beyond them, as these ranges are configuration options
ColourOffsets == {100 * k : k \in -MaxSteps..MaxSteps}
Jitters == {1000 * k : k \in -MaxSteps..MaxSteps}

Min(a, b) == IF a <= b THEN a ELSE b
Max(a, b) == IF a >= b THEN a ELSE b

\* max(min_val, val): the upper limit is lost
clamp_from_below(val, min_val, max_val) == Max(min_val, val)

\* clamp(val, min_val, max_val)
clamp(val, min_val, max_val) == Max(min_val, Min(val, max_val))

\* max(x, 0.0): the upper limit is lost
unit_from_below(x) == Max(x, 0)

\* min(max(x, 0.0), 1.0)
unit(x) == Min(Max(x, 0), 1000)

\* CAMERA_CORNER_COORD = BOX_SIZE / 2 * CAMERA_DISTANCE_FACTOR
CAMERA_CORNER_COORD == ((BOX_SIZE \div 2) * 7) \div 10

CAMERA_BASE_POSITIONS(name) ==
    CASE name = "front_left" -> <<CAMERA_CORNER_COORD, CAMERA_CORNER_COORD, CAMERA_CORNER_COORD>>
      [] name = "front_right" -> <<-CAMERA_CORNER_COORD, CAMERA_CORNER_COORD, CAMERA_CORNER_COORD>>
      [] name = "back_left" -> <<CAMERA_CORNER_COORD, -CAMERA_CORNER_COORD, CAMERA_CORNER_COORD>>
      [] name = "back_right" -> <<-CAMERA_CORNER_COORD, -CAMERA_CORNER_COORD, CAMERA_CORNER_COORD>>
      [] OTHER -> <<0, 0, CAMERA_CORNER_COORD>>

\* new_position of setup_cameras
new_position(base_position, jitter) ==
    LET box_half == BOX_SIZE \div 2
    IN  <<clamp(base_position[1] + jitter[1], -box_half, box_half),
          clamp(base_position[2] + jitter[2], -box_half, box_half),
          clamp(base_position[3] + jitter[3], -box_half, box_half)>>

\* new_h, new_s, new_v of create_box, from the white base (0, 0, 1)
new_hsv(offset) ==
    <<(0 + offset[1]) % 1000, unit(0 + offset[2]), unit(1000 + offset[3])>>

\* light_color of setup_lighting, from the white base (1, 1, 1)
light_color(offset) == <<unit(1000 + offset[1]), unit(1000 + offset[2]), unit(1000 + offset[3])>>

Triples(S) == {<<a, b, c>> : a \in S, b \in S, c \in S}

\* setup_cameras: the location of one camera
CameraLocation ==
    /\ \E i \in DOMAIN CameraViews, jitter \in Triples(Jitters) :
          made' = [what |-> "camera", name |-> CameraViews[i], drawn |-> jitter,
                   value |-> new_position(CAMERA_BASE_POSITIONS(CameraViews[i]), jitter)]
    /\ UNCHANGED <<filterVars, mainVars, poseVars, bootVars>>

\* create_box: the colour of the material
BoxColour ==
    /\ \E offset \in Triples(ColourOffsets) :
          made' = [what |-> "box", name |-> "", drawn |-> offset, value |-> new_hsv(offset)]
    /\ UNCHANGED <<filterVars, mainVars, poseVars, bootVars>>

\* setup_lighting: the colour of the four lights
LightColour ==
    /\ \E offset \in Triples(ColourOffsets) :
          made' = [what |-> "light", name |-> "", drawn |-> offset, value |-> light_color(offset)]
    /\ UNCHANGED <<filterVars, mainVars, poseVars, bootVars>>

SceneInit ==
    /\ made = None
    /\ tree = <<>>
    /\ FilterStart
    /\ MainIdle

SceneNext == CameraLocation \/ BoxColour \/ LightColour

SpecScene == SceneInit /\ [][SceneNext]_vars

----------------------------------------------------------------------------
(* The claims about the quality filter *)

\* a call of process_top_view_renders_with_sync has just returned
Returned(i) == fpc = "call" /\ pass = i

\* a .png file of a directory named "top" (in any case)
IsReferenceImage(p) == Lower(p[2]) = "top" /\ Lower(p[3][2]) = ".png"

\* brightness above max_threshold, or below a configured min_threshold,
\* written out on the pixel sum s and the pixel count n of the image
AboveMax(img) == SumSeq(img) * max_threshold[2] > max_threshold[1] * Len(img)
BelowMin(img) ==
    /\ min_threshold # None
    /\ SumSeq(img) * min_threshold[2] < min_threshold[1] * Len(img)

\* the reference-view images of a tree that the thresholds reject
RejectedIn(t) ==
    {p \in DOMAIN t : /\ IsReferenceImage(p)
                      /\ t[p].img # Corrupt
                      /\ (AboveMax(t[p].img) \/ BelowMin(t[p].img))}

\* the files of the image set of p: same category, same file name
SetOf(t, p) == {q \in DOMAIN t : q[1] = p[1] /\ q[3] = p[3]}

\* C1: after a non-debug call in which nothing raised, no file of the image
\* set of a rejected reference-view image is left: neither the image nor a
\* file of the same name in another view directory of its category
C1_CrossViewConsistency ==
    \A i \in Passes :
        (Returned(i) /\ ~calls[i].debug /\ ~raised) =>
            \A p \in RejectedIn(calls[i].tree) : SetOf(tree, p) = {}

\* C1 witness: such a call returned after rejecting an image that had files
\* in two other view directories
C1_Witness ==
    /\ Returned(1) /\ ~calls[1].debug /\ ~raised
    /\ \E p \in RejectedIn(calls[1].tree) :
          Cardinality(SetOf(calls[1].tree, p)) = 3

\* C3: a second non-debug call after a non-debug call with the same
\* thresholds removes no file and returns a deleted count of 0
C3_IdempotentRefiltering ==
    (pass = 2 /\ ~calls[1].debug /\ ~calls[2].debug) =>
        /\ removed[2] = {}
        /\ tree = calls[2].tree
        /\ Returned(2) => result[2][1] = 0

\* C3 witness: the second call returned after a first call that removed files
C3_Witness ==
    /\ Returned(2) /\ ~calls[1].debug /\ ~calls[2].debug
    /\ removed[1] # {}
    /\ result[1][1] > 0

\* the decision a call printed for an image: the reason and the brightness
Decision(i, p) ==
    {<<l.reason, l.avg>> : l \in {m \in out : /\ m.pass = i
                                               /\ m.path = p
                                               /\ m.kind \in {"Deleting", "Would delete", "Keeping"}}}

\* C4: a call with debug_mode removes nothing, and prints the decisions and
\* returns the counts of a non-debug call on the same tree and thresholds
C4_DryRun ==
    /\ (pass = 1 /\ calls[1].debug) => (tree = calls[1].tree /\ removed[1] = {})
    /\ (Returned(2) /\ calls[1].debug /\ ~calls[2].debug) =>
          /\ calls[2].tree = calls[1].tree
          /\ \A p \in DOMAIN calls[1].tree : Decision(1, p) = Decision(2, p)
          /\ result[1] = result[2]

\* C4, the part the code keeps: a call with debug_mode removes nothing
C4_DryRunRemovesNothing ==
    (pass = 1 /\ calls[1].debug) => (tree = calls[1].tree /\ removed[1] = {})

\* C5: the thresholds are mean(empty) - margin and mean(object) + margin,
\* written out on pixel sums and counts
C5_Calibration ==
    /\ (refs # None /\ refs[1] # Corrupt /\ refs[2] # Corrupt) =>
          LET e == refs[1]
              o == refs[2]
              m == refs[3]
          IN  /\ max_threshold[1] * (Len(e) * m[2])
                    = (SumSeq(e) * m[2] - m[1] * Len(e)) * max_threshold[2]
              /\ min_threshold[1] * (Len(o) * m[2])
                    = (SumSeq(o) * m[2] + m[1] * Len(o)) * min_threshold[2]
              /\ max_threshold[2] > 0 /\ min_threshold[2] > 0
    /\ LET th == compute_thresholds_from_references(<<250, 250>>, <<180, 180>>, <<5, 1>>)
       IN  th[1][1] = 245 * th[1][2] /\ th[2][1] = 185 * th[2][2]

\* C5 witness: the thresholds were computed from references of means 250
\* and 180 with margin 5
C5_Witness ==
    /\ fpc = "call"
    /\ refs = <<<<250, 250>>, <<180, 180>>, <<5, 1>>>>

\* C6: every image the filter classifies is "too bright" iff its mean is
\* above the upper threshold, else "too dark" iff a lower threshold is
\* configured and its mean is below it, else kept; a mean equal to a
\* threshold is kept; with 245.0/185.0, 246.0 is too bright and 200.0 is kept
C6_FilteringDecision ==
    /\ \A p \in DOMAIN calls[1].tree :
          (pass >= 1 /\ IsReferenceImage(p) /\ calls[1].tree[p].img # Corrupt) =>
             LET img == calls[1].tree[p].img
                 got == {<<l.kind, l.reason>> : l \in {m \in out : m.pass = 1 /\ m.path = p}}
                 verdicts == {g \in got : g[1] \in {"Deleting", "Would delete", "Keeping"}}
                 want == IF AboveMax(img) THEN "too bright"
                         ELSE IF BelowMin(img) THEN "too dark"
                         ELSE "within range"
             IN  \A g \in verdicts :
                    /\ g[2] = want
                    /\ g[1] = "Keeping" <=> want = "within range"
    /\ Returned(1) =>
          \A p \in DOMAIN calls[1].tree :
             (IsReferenceImage(p) /\ calls[1].tree[p].img # Corrupt) =>
                \E l \in out : /\ l.pass = 1 /\ l.path = p
                               /\ l.kind \in {"Deleting", "Would delete", "Keeping"}
    /\ Reason(<<246, 1>>, <<245, 1>>, <<185, 1>>) = "too bright"
    /\ Reason(<<200, 1>>, <<245, 1>>, <<185, 1>>) = "within range"

\* C6 witness: a call kept an image whose mean equals the upper threshold and
\* one whose mean equals the lower threshold, and rejected one as too dark
C6_Witness ==
    /\ Returned(1)
    /\ min_threshold # None
    /\ \E l \in out : l.kind = "Keeping" /\ RatEq(l.avg, max_threshold)
    /\ \E l \in out : l.kind = "Keeping" /\ RatEq(l.avg, min_threshold)
    /\ \E l \in out : l.reason = "too dark"

----------------------------------------------------------------------------
(* The claims about the render orchestrator *)

\* the log lines that classify an image
Classified == {"Keeping", "Would delete", "Deleting"}

\* the renders of the frame (category, model, variation) of a render
Frame(r) == {t \in renders : t.run = r.run /\ t.model = r.model /\ t.variation = r.variation}

\* C2: when the first call of process_top_view_renders_with_sync on the
\* folder main.py wrote has returned, every top-view image render_model wrote
\* has been classified, and every file the call removed is a view of a frame
\* whose top-view image was rejected
C2_LayoutAgreement ==
    (mpc = "done" /\ Returned(1)) =>
        /\ \A r \in renders : r.view = "top" =>
              \E l \in out : l.pass = 1 /\ l.path = r.path /\ l.kind \in Classified
        /\ \A r \in renders : r.path \in removed[1] =>
              \E t \in Frame(r), l \in out :
                  t.view = "top" /\ l.pass = 1 /\ l.path = t.path /\ l.kind = "Deleting"

\* C7: for the same object and the same variation index the draws for the
\* pose, for the cameras and for the lighting start from the same state of
\* the generator, in any two runs and whatever was processed before
C7_SeededReproducibility ==
    \A a, b \in draws :
        (a.model = b.model /\ a.variation = b.variation /\ a.what = b.what) => a.at = b.at

\* the calls of load_model in which the scaled object was not inside the box
FitViolations == {l \in loads : l.how = "not inside"}

\* render_model returned for the model of a load, and no exception ended it
ReturnedFrom(l) ==
    /\ \E i \in DOMAIN history : history[i].run = l.run /\ history[i].model = l.model
    /\ \A i \in DOMAIN history :
          (history[i].run = l.run /\ history[i].model = l.model) => history[i].how # "exception"

\* C8: when the fit check fails in variation k > 0 of a model, only variation
\* k is skipped: once render_model has returned, the variations k+1 ..
\* VARIATIONS_PER_MODEL-1 of the model are rendered
C8_FitViolationSkipsVariation ==
    \A l \in FitViolations :
        (l.variation > 0 /\ ReturnedFrom(l)) =>
            \A k \in (l.variation + 1)..(VARIATIONS_PER_MODEL - 1) :
                \E r \in renders : r.run = l.run /\ r.model = l.model /\ r.variation = k

\* C8, amended: when the fit check fails in variation k of a model,
\* render_model returns False at once: the variations before k are rendered
\* in every view, variation k and the later ones are not rendered at all, the
\* model is counted as failed, and main goes on to the models that are left
C8_FitViolationEndsModel ==
    \A l \in FitViolations :
        /\ \A r \in renders : (r.run = l.run /\ r.model = l.model) => r.variation < l.variation
        /\ \A k \in 0..(l.variation - 1), i \in DOMAIN CameraViews :
              \E r \in renders : /\ r.run = l.run /\ r.model = l.model
                                 /\ r.variation = k /\ r.view = CameraViews[i]
        /\ \E i \in DOMAIN history :
              history[i] = [run |-> l.run, model |-> l.model, how |-> "False"]
        /\ failed >= 1
        /\ mpc = "done" =>
              \A m \in models : \E i \in DOMAIN history : history[i].model = Ident(m)

\* C8 witness: the fit check failed in a variation after the first and before
\* the last, and main went on to render another model after it
C8_Witness ==
    /\ mpc = "done"
    /\ \E l \in FitViolations :
          /\ l.variation > 0
          /\ l.variation < VARIATIONS_PER_MODEL - 1
          /\ \E i \in DOMAIN history :
                /\ history[i].model = l.model
                /\ i < Len(history)
                /\ history[i + 1].how = "True"

\* C9: when main finishes, every model found was attempted exactly once,
\* each attempt was counted, also one ended by an exception, and successful +
\* failed is the number of models; meanwhile the counts are those of the
\* attempts made so far
C9_FailureIsolation ==
    /\ successful = Cardinality({i \in DOMAIN history : history[i].how = "True"})
    /\ failed = Cardinality({i \in DOMAIN history : history[i].how # "True"})
    /\ \A i, j \in DOMAIN history : history[i].model = history[j].model => i = j
    /\ mpc = "done" =>
          /\ \A m \in models : \E i \in DOMAIN history : history[i].model = Ident(m)
          /\ successful + failed = Cardinality(models)

\* C9 witness: main finished after the render invocation raised in the
\* middle of a model, and the model after that one was rendered
C9_Witness ==
    /\ mpc = "done"
    /\ \E i \in DOMAIN history :
          /\ history[i].how = "exception"
          /\ \E r \in renders : r.model = history[i].model
          /\ i < Len(history)
          /\ history[i + 1].how = "True"
    /\ successful = 1
    /\ failed = 1

\* C10: whenever the import adds no mesh object to the scene, load_model
\* returns no object and the model is counted as failed without a render of
\* that variation; and load_model never returns an object that was in the
\* scene before the import
C10_NoImportableMesh ==
    \A l \in loads :
        /\ (~l.raises /\ {o \in l.imported : o.type = "MESH"} = {}) =>
              /\ ~l.found
              /\ \E i \in DOMAIN history :
                    history[i] = [run |-> l.run, model |-> l.model, how |-> "False"]
              /\ \A r \in renders :
                    (r.run = l.run /\ r.model = l.model) => r.variation # l.variation
        /\ l.found => l.object \notin l.before

\* C11: every object load_model returns has its eight bounding box corners,
\* in world space and after scaling, within BOX_SIZE/2 + tol of the origin on
\* every axis, and randomize_model_pose is called on such objects only
C11_FitInvariant ==
    /\ \A l \in loads : l.found => l.inside
    /\ \A d \in draws :
          d.what = "pose" =>
              \E l \in loads : /\ l.run = d.run /\ l.model = d.model
                               /\ l.variation = d.variation
                               /\ l.found /\ l.inside

----------------------------------------------------------------------------
(* The claims about the scene set-up *)

InRange(x, lo, hi) == lo <= x /\ x <= hi

\* C12: each coordinate of the location setup_cameras gives a camera lies
\* within [-BOX_SIZE/2, BOX_SIZE/2], for every base position and jitter
C12_CameraContainment ==
    (made # None /\ made.what = "camera") =>
        \A i \in 1..3 : InRange(made.value[i], -(BOX_SIZE \div 2), BOX_SIZE \div 2)

\* C12 witness: a camera whose jittered base position left the box on every
\* axis, above on one and below on another
C12_Witness ==
    /\ made # None
    /\ made.what = "camera"
    /\ LET base == CAMERA_BASE_POSITIONS(made.name)
       IN  /\ \A i \in 1..3 : ~InRange(base[i] + made.drawn[i], -(BOX_SIZE \div 2), BOX_SIZE \div 2)
           /\ \E i, j \in 1..3 : base[i] + made.drawn[i] > 0 /\ base[j] + made.drawn[j] < 0

\* C13: the hue, saturation and value of the enclosure material and every
\* channel of the light colour lie in [0, 1], for every offset drawn
C13_ColourValidity ==
    (made # None /\ made.what \in {"box", "light"}) =>
        \A i \in 1..3 : InRange(made.value[i], 0, 1000)

\* C13 witness: a light colour with one channel drawn above 1 and another
\* drawn below 1
C13_Witness ==
    /\ made # None
    /\ made.what = "light"
    /\ \E i, j \in 1..3 : made.drawn[i] > 0 /\ made.drawn[j] < 0

----------------------------------------------------------------------------
(* More claims about the quality filter *)

\* C14: when compute_thresholds_from_references is given a reference image
\* that cannot be read, the script ends with the diagnostic and exit status
\* 1; and whenever the script has ended before its call of the filter, a
\* diagnostic was printed, no call was begun and no file was removed
C14_UnreadableReferenceIsFatal ==
    /\ (refs # None /\ (refs[1] = Corrupt \/ refs[2] = Corrupt)) =>
          /\ fpc = "exit"
          /\ \E l \in out : l.kind = "Error computing thresholds"
    /\ fpc = "exit" =>
          /\ \E l \in out : l.kind \in {"Error computing thresholds", "Traceback"}
          /\ pass = 0
          /\ \A i \in Passes : removed[i] = {}
          /\ \A l \in out : l.kind \notin {"Deleting", "Would delete", "Keeping"}

\* C14 witness: the script ended on an unreadable object reference image
\* with two files in the output folder
C14_Witness ==
    /\ fpc = "exit"
    /\ refs # None
    /\ refs[1] # Corrupt
    /\ refs[2] = Corrupt
    /\ Cardinality(DOMAIN tree) = 2

\* the reference-view images of a tree that cannot be read, and those that can
Unreadable(t) == {p \in DOMAIN t : IsReferenceImage(p) /\ t[p].img = Corrupt}
Readable(t) == {p \in DOMAIN t : IsReferenceImage(p) /\ t[p].img # Corrupt}

\* C15: when a call returns, every reference-view image that could not be
\* read has an error line and no classification, it and the files of its
\* image set still exist, it is counted neither as deleted nor as kept, and
\* every other reference-view image has been classified
C15_PerImageErrorIsRecoverable ==
    \A i \in Passes :
        (Returned(i) /\ Unreadable(calls[i].tree) # {}) =>
            /\ \A p \in Unreadable(calls[i].tree) :
                  /\ \E l \in out : l.pass = i /\ l.path = p /\ l.kind = "Error processing"
                  /\ \A l \in out : (l.pass = i /\ l.path = p) => l.kind \notin Classified
                  /\ SetOf(calls[i].tree, p) \subseteq DOMAIN tree
            /\ \A q \in Readable(calls[i].tree) :
                  \E l \in out : l.pass = i /\ l.path = q /\ l.kind \in Classified
            /\ result[i][1] + result[i][2] = Cardinality(Readable(calls[i].tree))

\* C15 witness: a call returned after an unreadable image with a file in
\* another view, in a directory with a second image, which was deleted
C15_Witness ==
    /\ Returned(1)
    /\ \E p \in Unreadable(calls[1].tree) :
          /\ Cardinality(SetOf(calls[1].tree, p)) > 1
          /\ \E q \in Readable(calls[1].tree) : q[1] = p[1] /\ q \in removed[1]

\* C16: for every file a call removed, the reference-view image as well as
\* the files of the same name in the other view directories, a "Deleting"
\* line with the path of that file, the brightness and the reason was printed
C16_DeletionsAreLogged ==
    \A i \in Passes : \A p \in removed[i] :
        \E l \in out : /\ l.pass = i /\ l.kind = "Deleting" /\ l.path = p
                       /\ l.avg # None /\ l.reason \in {"too bright", "too dark"}

\* the part of C16 that holds: it is so for the reference-view images
C16_ReferenceDeletionsAreLogged ==
    \A i \in Passes : \A p \in removed[i] :
        IsReferenceImage(p) =>
            \E l \in out : /\ l.pass = i /\ l.kind = "Deleting" /\ l.path = p
                           /\ l.avg # None /\ l.reason \in {"too bright", "too dark"}

----------------------------------------------------------------------------
(* More claims about the render orchestrator *)

\* C17: when a variation begins, after clear_scene, the scene holds the
\* enclosure, its material and the rigid body world created for this
\* variation and nothing else, whatever was in it before
C17_FullTeardown ==
    mpc = "light" => scene = {Display_Box(By), White_Interior(By), RigidBodyWorld(By)}

\* how the render_model call before the running one ended
EndedBefore(how) == history # <<>> /\ history[Len(history)].how = how

\* C17 witness: a variation begins after a model whose render_model call
\* was ended by an exception of the renderer, with its scene set up
C17_Witness ==
    /\ mpc = "light"
    /\ EndedBefore("exception")
    /\ \E r \in renders : r.model = history[Len(history)].model
    /\ scene = {Display_Box(By), White_Interior(By), RigidBodyWorld(By)}

\* C17 witness for a variation that begins after a load failure
C17_WitnessLoadFailure ==
    /\ mpc = "light"
    /\ EndedBefore("False")
    /\ scene = {Display_Box(By), White_Interior(By), RigidBodyWorld(By)}

\* the calls of scene.frame_set the loop of the last randomize_model_pose
\* made are the 60 frames from the start frame on, one after the other
FullSimulation(p) ==
    /\ Len(p.frames) = simulation_frames
    /\ \A i \in 1..Len(p.frames) : p.frames[i] = p.frames[1] + i - 1

\* C18: every call of randomize_model_pose advances the physics through
\* exactly 60 frames, one after the other from the start frame, and the
\* settling never ends early: the final pose is read after the last of them.
C18_SettlingRunsAllFrames == (pose # None /\ ~pose.raised) => FullSimulation(pose)

\* C19: when the rigid body cannot be attached to the object, the object
\* keeps the pose it was placed with: the pose returned is the initial pose
\* in the air, in degrees, the call of render_model is not ended by an
\* exception, and once the variation is past its rendering all its views
\* have been rendered.
C19_UnattachedKeepsInitialPose ==
    (pose # None /\ pose.rigid_body = "failed") =>
        /\ ~pose.raised
        /\ pose.final = pose.initial
        /\ pose.final.position[3] = pos_z
        /\ pose.returned[2] = pose.initial.position
        /\ \A k \in 1..3 : pose.returned[1][k] = degrees(pose.initial.rotation[k])
        /\ \A i \in DOMAIN history :
               (history[i].run = pose.run /\ history[i].model = pose.model)
                   => history[i].how # "exception"
        /\ mpc \notin {"pose", "render"} =>
               \A i \in DOMAIN CameraViews :
                   \E r \in renders : /\ r.run = pose.run
                                       /\ r.model = pose.model
                                       /\ r.variation = pose.variation
                                       /\ r.view = CameraViews[i]

\* a variation whose object got no rigid body and whose frame loop ran all
\* frames has been rendered from every view
C19_Witness ==
    /\ pose # None
    /\ pose.rigid_body = "failed"
    /\ Len(pose.frames) = simulation_frames
    /\ mpc = "done"
    /\ \A i \in DOMAIN CameraViews :
           \E r \in renders : r.model = pose.model /\ r.variation = pose.variation /\ r.view = CameraViews[i]

\* the invocations of the renderer for one variation and view of a model in
\* one run of main.py
Invocations(r, m, k, view) ==
    {x \in renders : x.run = r /\ x.model = m /\ x.variation = k /\ x.view = view}

\* C20: a model render_model returned True for has had the renderer invoked
\* once for every variation and view, also in a run that finds the files of
\* an earlier run in place; no invocation was made twice, and two
\* invocations for different (category, model, variation, view) never write
\* the same path.
C20_OneFramePerVariationAndView ==
    /\ rendered = Cardinality(renders)
    /\ \A i \in DOMAIN history :
          history[i].how = "True" =>
              \A k \in 0..(VARIATIONS_PER_MODEL - 1), v \in DOMAIN CameraViews :
                  Cardinality(Invocations(history[i].run, history[i].model, k,
                                          CameraViews[v])) = 1
    /\ \A a, b \in renders :
          a.path = b.path =>
              a.model = b.model /\ a.variation = b.variation /\ a.view = b.view
    /\ \A a \in renders : a.path \in DOMAIN tree

\* C20 witness: the second run over the same input has finished and has
\* rendered every frame of two models again, over the files of the first run
C20_Witness ==
    /\ run = 2
    /\ mpc = "done"
    /\ Cardinality(models) = 2
    /\ successful = 2
    /\ rendered = 2 * 2 * VARIATIONS_PER_MODEL * Len(CameraViews)
    /\ Cardinality(DOMAIN tree) = 2 * VARIATIONS_PER_MODEL * Len(CameraViews)

\* the tree a begun call has left behind so far
TreeAfter(i) == IF i = pass THEN tree ELSE calls[i + 1].tree

\* the files a begun call has removed so far
Gone(i) == (DOMAIN calls[i].tree) \ (DOMAIN TreeAfter(i))

\* C21: a call removes only rejected reference-view images and files of the
\* same name in the other view directories of the same category; all files
\* of the image set of a reference-view image that is kept or cannot be
\* read stay, and so does every file of another category or file name.
C21_AcceptedSetsLeftWhole ==
    \A i \in 1..pass :
        LET before == calls[i].tree
            rejected == RejectedIn(before)
        IN  /\ \A p \in Gone(i) :
                  \/ p \in rejected
                  \/ /\ ~IsReferenceImage(p)
                     /\ Lower(p[2]) # "top"
                     /\ \E q \in rejected : p[1] = q[1] /\ p[3] = q[3]
            /\ \A q \in DOMAIN before :
                  (IsReferenceImage(q) /\ q \notin rejected) =>
                      SetOf(before, q) \cap Gone(i) = {}
            /\ DOMAIN TreeAfter(i) \subseteq DOMAIN before

\* C21 witness: a non-debug call returned having removed a rejected set of
\* two files and kept the reference-view image of another set of the same
\* category
C21_Witness ==
    /\ Returned(1)
    /\ ~calls[1].debug
    /\ \E p \in RejectedIn(calls[1].tree), q \in DOMAIN calls[1].tree :
          /\ Cardinality(SetOf(calls[1].tree, p)) = 2
          /\ SetOf(calls[1].tree, p) = Gone(1)
          /\ IsReferenceImage(q)
          /\ q \notin RejectedIn(calls[1].tree)
          /\ q[1] = p[1]
          /\ q \in DOMAIN tree

\* the image sets of a tree: the files of one category and file name
Sets(t) == {SetOf(t, p) : p \in DOMAIN t}

\* a set is whole or gone after call i
WholeOrGone(i) ==
    \A S \in Sets(calls[i].tree) :
        S \subseteq DOMAIN TreeAfter(i) \/ S \cap DOMAIN TreeAfter(i) = {}

\* C22: when a non-debug call has returned, every image set that was there
\* before the call is there with all its files or with none of them, also
\* when a removal raised during the call, and the deleted count returned is
\* the number of rejected image sets.
C22_NoPartialSetOnError ==
    \A i \in 1..pass :
        (Returned(i) /\ ~calls[i].debug) =>
            /\ WholeOrGone(i)
            /\ result[i][1] = Cardinality(RejectedIn(calls[i].tree))

\* C22, the part the code keeps: a non-debug call in which nothing raised
\* leaves no partial set and counts every rejected set
C22_NoPartialSetWithoutError ==
    (Returned(pass) /\ pass >= 1 /\ ~calls[pass].debug /\ ~raised) =>
        /\ WholeOrGone(pass)
        /\ result[pass][1] = Cardinality(RejectedIn(calls[pass].tree))

\* the directory of a path render_model writes to
DirOf(path) == <<path[1], path[2]>>

\* the directories made at start-up are those of the views of the camera
\* rig and the input categories, and every render went into one of them
FoldersAgree ==
    /\ mpc \notin {"import", "ImportError", "start"} =>
          dirs = {<<CameraViews[i], m.category>> : i \in DOMAIN CameraViews, m \in models}
    /\ \A r \in renders : DirOf(r.path) \in dirs

\* C23: create_output_folders makes OUTPUT_PATH/<view>/<category> for the
\* views setup_cameras returns and the input categories, every path
\* render_model writes lies in such a directory, and under config.py as it
\* is main.py gets past its imports to the render loop.
C23_ViewSetAgreement ==
    /\ FoldersAgree
    /\ config = ShippedConfig => mpc # "ImportError"

\* C23, the part that holds once the imports succeed
C23_FoldersAgreeAfterImport == FoldersAgree

============================================================================
